---- MODULE Spec2Model ----
(***************************************************************************)
(* HealthDashboard (src/dashboard.js) as a state machine.                  *)
(*                                                                         *)
(* The page is single-threaded: every action below is one run-to-          *)
(* completion step of the event loop -- a timer callback, a UI event       *)
(* handler, or the resumption of an async method after its awaited fetch   *)
(* has settled.  Timers carry the milliseconds left until they are due;    *)
(* Advance lets time pass, never beyond the next due timer.                *)
(***************************************************************************)
EXTENDS Integers, Sequences, FiniteSets

VARIABLES
    hidden,             \* document.hidden
    intervals,          \* armed setInterval timers: ms left until the next firing
    updateTimer,        \* this.updateTimer: 0 (null/undefined) or a handle into intervals
    refetchTimers,      \* pending setTimeout(() => this.updateHealthData(), ..): ms left
    isUpdating,         \* this.isUpdating
    fetching,           \* number of GET /api/health-data requests awaiting their response
    loading,            \* #loadingOverlay has class "show"
    connected,          \* #connectionStatus reads "Connected"
    alert,              \* #alertSection / #healthAlert / #alertMessage and the hide timers
    disabled,           \* button.disabled of the four controls
    pending,            \* requests awaiting a response, per control
    fingerprintDisplay, \* #fingerprintSection style.display
    stopDisplay,        \* #stopBtn style.display
    sessionMode,        \* the scan mode whose acknowledgment was applied last
    chart,              \* this.chart.data: the charted points, oldest first
    arrivals,           \* history: every point handed to the chart, in arrival order
    clock,              \* backend: timestamp of the latest sample it has produced
    emergencyMode,      \* this.emergencyMode
    tiles,              \* the six metric tiles: 0 for "--", else the snapshot shown
    statusText,         \* #healthStatus
    statusIndicator,    \* #statusIndicator: colour class of its icon
    scoreText,          \* #healthScore: -1 for "--", else the score
    scoreBar,           \* #healthScoreBar colour class
    limits,             \* how much the environment does in this run (never changes)
    last,               \* the request settled last, and how it ended
    lastUpdate,         \* #lastUpdate: 0 for "--", else the snapshot it was recorded with
    historyContent,     \* #historyContent of the history modal
    historyPending,     \* history requests awaiting a response, per view
    tornDown,           \* history: the beforeunload handler has run
    recommendationsList,\* #recommendationsList: its children, first to last
    inFlight,           \* history: per pending fetch, oldest first, whether the
                        \* response of a fetch issued after it has been applied
    appliedLate         \* history: the response applied last was such a one

vars == <<hidden, intervals, updateTimer, refetchTimers, isUpdating, fetching,
          loading, connected, alert, disabled, pending, fingerprintDisplay,
          stopDisplay, sessionMode, chart, arrivals, clock, emergencyMode, tiles,
          statusText, statusIndicator, scoreText, scoreBar, limits, last,
          lastUpdate, historyContent, historyPending, tornDown,
          recommendationsList, inFlight, appliedLate>>

----------------------------------------------------------------------------
(* Program constants *)

updateInterval == 5000
AlertDuration == 5000
RetrainRefetchDelay == 1000
ScanRefetchDelay == 500
maxPoints == 20

(* Bounds of the model *)

MaxPending == 2
MaxRefetchTimers == 1
MaxAlertTimers == 1
MaxSamples == 1
MaxAppends == 1
ChartSamples == 2
TimedAlertTimers == 2
TimeSlices == 2
ChartAppends == 22
StatusAppends == 2
BandAppends == 2
MaxScore == 100
MaxHistory == 1
MaxRecommendations == 2

\* Time passes in steps of at most this long, and never beyond the next due
\* timer: events other than timer callbacks happen at these instants.
Step == AlertDuration \div TimeSlices

\* A timer set for ms milliseconds.  In a timed run it is due after exactly
\* that long; in an untimed run the delay is left open and the timer may
\* fire at any later step.
Delay(ms) == IF limits.timed THEN ms ELSE 0

Controls == {"retrain", "normalScan", "emergencyScan", "stop"}

Views == {"health", "scans"}

Min(a, b) == IF a < b THEN a ELSE b

SeqMin(s, top) ==
    LET RECURSIVE m(_)
        m(i) == IF i > Len(s) THEN top ELSE Min(s[i], m(i + 1))
    IN  m(1)

RemoveAt(s, i) == SubSeq(s, 1, i - 1) \o SubSeq(s, i + 1, Len(s))

Elapse(s, d) == [i \in 1..Len(s) |-> s[i] - d]

----------------------------------------------------------------------------
(* showAlert(type, message): unless all three elements are in the document *)
(* it changes nothing on the page; otherwise it overwrites the slot, shows *)
(* the section and starts a hide timer.  It never cancels a timer started  *)
(* earlier.  raised records the arguments of the latest call.              *)

showAlertNoTimer(a, type, message) ==
    LET b == [a EXCEPT !.raised = <<type, message>>]
    IN  IF a.present
        THEN [b EXCEPT !.kind = type, !.message = message,
                       !.display = "block", !.age = 0]
        ELSE b

showAlert(a, type, message) ==
    LET b == [a EXCEPT !.raised = <<type, message>>]
    IN  IF a.present
        THEN [b EXCEPT !.kind = type, !.message = message,
                       !.display = "block",
                       !.timers = Append(@, Delay(AlertDuration)), !.age = 0]
        ELSE b

AlertVisible == alert.present /\ alert.display = "block"

\* A handler that raises an alert runs only while the number of outstanding
\* hide timers is within the bound.
AlertRoom == Len(alert.timers) < limits.alertTimers

\* A request that schedules a refetch settles only while the number of
\* pending refetch timers is within the bound.
RefetchRoom == Len(refetchTimers) < limits.refetchTimers

----------------------------------------------------------------------------
(* The snapshot a response to GET /api/health-data carries.                *)
(*   fail      : the request rejects, or response.ok is false              *)
(*   httpError : response.ok is false and the body is a full snapshot      *)
(*   sentinel  : health_data null, anomaly_result.status the waiting text  *)
(*   data      : a HealthSnapshot with its anomaly verdict                 *)
(*   malformed : health_data present, anomaly_result missing               *)

\* A RecommendationSet: its priority and its recommendation strings in
\* display order.  listed is FALSE when the set carries no recommendations
\* array at all.
RecommendationSet(priority, listed, recommendations) ==
    [priority |-> priority, listed |-> listed,
     recommendations |-> recommendations]

NoRecommendations == RecommendationSet("Low", TRUE, <<>>)

Strings == {"rest", "hydrate"}

RecommendationSets ==
    {RecommendationSet(p, TRUE, rs) :
        p \in {"High", "Low"},
        rs \in UNION {[1..n -> Strings] : n \in 0..MaxRecommendations}}
    \cup {RecommendationSet("Low", FALSE, <<>>)}

Response(kind, ts, anomaly, score) ==
    [kind |-> kind, ts |-> ts, anomaly |-> anomaly, score |-> score,
     recommendations |-> NoRecommendations]

\* The backend serves its latest sample again, or a fresh one.
Timestamps ==
    {t \in {clock, clock + 1} : t >= 1 /\ t <= limits.samples}

Responses ==
    {r \in {Response("fail", 0, "none", 0)}
               \cup {[Response("sentinel", 0, "none", 0)
                         EXCEPT !.recommendations = rs] :
                       rs \in limits.recommendations}
               \cup {[Response("data", t, a, sc)
                         EXCEPT !.recommendations = rs] :
                       t \in Timestamps, a \in limits.verdicts,
                       sc \in limits.scores, rs \in limits.recommendations}
               \cup {Response("malformed", t, "none", 0) : t \in Timestamps}
               \cup {Response("httpError", t, a, sc) :
                       t \in Timestamps, a \in limits.verdicts,
                       sc \in limits.scores} :
        r.kind \in limits.kinds}

----------------------------------------------------------------------------
(* startDataUpdates / stopDataUpdates *)

startDataUpdatesKeepingTimer ==
    /\ intervals' = Append(intervals, Delay(updateInterval))
    /\ updateTimer' = Len(intervals) + 1
    /\ connected' = TRUE

startDataUpdates ==
    LET cleared == IF updateTimer # 0 THEN RemoveAt(intervals, updateTimer)
                                      ELSE intervals
    IN  /\ intervals' = Append(cleared, Delay(updateInterval))
        /\ updateTimer' = Len(cleared) + 1
        /\ connected' = TRUE

stopDataUpdates ==
    /\ intervals' = IF updateTimer # 0 THEN RemoveAt(intervals, updateTimer)
                                       ELSE intervals
    /\ updateTimer' = 0
    /\ connected' = FALSE

----------------------------------------------------------------------------
(* updateHealthData, up to its first await: the guard, the flag, the       *)
(* loading overlay and the request.                                        *)

GuardNever == FALSE

GuardAfterSecond == fetching > 1

\* if (this.isUpdating) return;
UpdateGuard == isUpdating

updateHealthDataUnguarded ==
    /\ isUpdating' = TRUE
    /\ loading' = TRUE
    /\ fetching' = fetching + 1
    /\ inFlight' = Append(inFlight, FALSE)

updateHealthData ==
    IF UpdateGuard
    THEN UNCHANGED <<isUpdating, fetching, inFlight, loading>>
    ELSE /\ isUpdating' = TRUE
         /\ loading' = TRUE
         /\ fetching' = fetching + 1
         /\ inFlight' = Append(inFlight, FALSE)

----------------------------------------------------------------------------
(* The parts of the UI update that run when the response has arrived.      *)

BandAboveEighty(score) ==
    IF score > 80 THEN "bg-success"
    ELSE IF score >= 60 THEN "bg-warning"
    ELSE "bg-danger"

Band(score) ==
    IF score >= 80 THEN "bg-success"
    ELSE IF score >= 60 THEN "bg-warning"
    ELSE "bg-danger"

\* updateChart: push, then drop the oldest point when over maxPoints.
updateChartNoShift(c, ts) == Append(c, ts)

updateChartDropNewest(c, ts) ==
    LET pushed == Append(c, ts)
    IN  IF Len(pushed) > maxPoints THEN SubSeq(pushed, 1, maxPoints) ELSE pushed

updateChart(c, ts) ==
    LET pushed == Append(c, ts)
    IN  IF Len(pushed) > maxPoints THEN Tail(pushed) ELSE pushed

\* The children of #recommendationsList.
DefaultMessage ==
    "No specific recommendations at this time. Keep monitoring your health!"

Paragraph(text) == [class |-> "text-muted", text |-> text, delay |-> 0]

toLowerCase(priority) ==
    CASE priority = "High" -> "high"
      [] priority = "Medium" -> "medium"
      [] priority = "Low" -> "low"

Item(priority, rec, index) ==
    [class |-> "recommendation-item priority-" \o toLowerCase(priority),
     text |-> rec, delay |-> index]

updateRecommendationsAppending(list, recommendations) ==
    IF ~recommendations.listed THEN list
    ELSE IF Len(recommendations.recommendations) = 0
         THEN <<Paragraph(DefaultMessage)>>
    ELSE list \o [i \in 1..Len(recommendations.recommendations) |->
                    Item(recommendations.priority,
                         recommendations.recommendations[i], i - 1)]

\* updateRecommendations: nothing without the array; otherwise the list is
\* emptied and one item appended per string, or the default message written
\* when there is none.  delay is the animation delay in tenths of a second.
updateRecommendations(list, recommendations) ==
    IF ~recommendations.listed THEN list
    ELSE IF Len(recommendations.recommendations) = 0
         THEN <<Paragraph(DefaultMessage)>>
    ELSE [i \in 1..Len(recommendations.recommendations) |->
            Item(recommendations.priority,
                 recommendations.recommendations[i], i - 1)]

AnomalyAlertForAnyRisk(a, anomaly) ==
    IF anomaly = "High" THEN showAlert(a, "danger", "anomalyHigh")
    ELSE IF anomaly \in {"Medium", "Low"}
         THEN showAlert(a, "warning", "anomalyMedium")
    ELSE a

\* The alert updateHealthStatus raises for a verdict.
AnomalyAlert(a, anomaly) ==
    IF anomaly = "High" THEN showAlert(a, "danger", "anomalyHigh")
    ELSE IF anomaly = "Medium" THEN showAlert(a, "warning", "anomalyMedium")
    ELSE a

\* catch + finally of updateHealthData
FetchFailed(a) ==
    /\ alert' = showAlert(a, "error", "fetchFailed")
    /\ connected' = FALSE

FetchFinallyHoldingGuard ==
    /\ loading' = FALSE
    /\ UNCHANGED isUpdating

FetchFinallyKeepingOverlay ==
    /\ UNCHANGED loading
    /\ isUpdating' = FALSE

FetchFinally ==
    /\ loading' = FALSE
    /\ isUpdating' = FALSE

\* this.emergencyMode after updateHealthStatus has seen a verdict: "none"
\* stands for is_anomaly false, a risk level for is_anomaly true.
EmergencyFlagForAlertsOnly(anomaly) == anomaly \in {"High", "Medium"}

EmergencyFlag(anomaly) == anomaly # "none"

\* A response without a HealthSnapshot: updateMetrics(null) writes the
\* placeholders and the waiting branch of updateHealthStatus returns before
\* the score is touched; updateChart(null) then throws on
\* healthData.timestamp, which lands in the catch of updateHealthData.
SentinelProcessedKeepingTiles(a) ==
    /\ statusText' = "Waiting for scan..."
    /\ statusIndicator' = "text-secondary"
    /\ FetchFailed(a)
    /\ UNCHANGED <<tiles, emergencyMode, scoreText, scoreBar, chart, arrivals,
                   lastUpdate>>

SentinelProcessed(a) ==
    /\ tiles' = 0
    /\ statusText' = "Waiting for scan..."
    /\ statusIndicator' = "text-secondary"
    /\ FetchFailed(a)
    /\ UNCHANGED <<emergencyMode, scoreText, scoreBar, chart, arrivals,
                   lastUpdate>>

\* The pending fetches answer in any order.  When the k-th oldest answers,
\* every older one still pending has been overtaken.
Answered(k) ==
    /\ inFlight' = [i \in 1..(Len(inFlight) - 1) |->
                      IF i < k THEN TRUE ELSE inFlight[i + 1]]
    /\ appliedLate' = inFlight[k]

FetchComplete(r) ==
    /\ fetching > 0
    /\ (r.kind # "data" \/ r.anomaly \in {"High", "Medium"}) => AlertRoom
    /\ r.kind = "data" => Len(arrivals) < limits.appends
    /\ fetching' = fetching - 1
    /\ \E k \in 1..Len(inFlight) : Answered(k)
    /\ FetchFinally
    /\ last' = <<"fetch", r.kind>>
    /\ clock' = IF r.kind \in {"data", "malformed"} THEN r.ts ELSE clock
    /\ CASE r.kind \in {"fail", "httpError"} ->
              \* if (!response.ok) throw ...: the body is never read.
              /\ FetchFailed(alert)
              /\ UNCHANGED <<tiles, statusText, statusIndicator,
                             emergencyMode, scoreText, scoreBar, chart,
                             arrivals, lastUpdate, recommendationsList>>
         [] r.kind = "sentinel" ->
              /\ SentinelProcessed(alert)
              /\ recommendationsList' =
                     updateRecommendations(recommendationsList,
                                           r.recommendations)
         [] r.kind = "malformed" ->
              \* updateMetrics runs; updateHealthStatus throws on
              \* anomalyResult.status.
              /\ tiles' = r.ts
              /\ FetchFailed(alert)
              /\ UNCHANGED <<statusText, statusIndicator, emergencyMode,
                             scoreText, scoreBar, chart, arrivals, lastUpdate,
                             recommendationsList>>
         [] r.kind = "data" ->
              /\ tiles' = r.ts
              /\ statusText' = IF r.anomaly = "none" THEN "Normal"
                               ELSE "Anomaly Detected (" \o r.anomaly \o " Risk)"
              /\ statusIndicator' = IF r.anomaly = "none"
                                    THEN "text-success normal"
                                    ELSE "text-danger emergency"
              /\ emergencyMode' = EmergencyFlag(r.anomaly)
              /\ alert' = AnomalyAlert(alert, r.anomaly)
              /\ scoreText' = r.score
              /\ scoreBar' = Band(r.score)
              /\ recommendationsList' =
                     updateRecommendations(recommendationsList,
                                           r.recommendations)
              /\ chart' = updateChart(chart, r.ts)
              /\ arrivals' = Append(arrivals, r.ts)
              /\ lastUpdate' = r.ts
              /\ connected' = TRUE
    /\ UNCHANGED <<hidden, intervals, updateTimer, refetchTimers, disabled,
                   pending, fingerprintDisplay, stopDisplay, sessionMode,
                   limits, historyContent, historyPending, tornDown>>

----------------------------------------------------------------------------
(* Timers *)

\* The setInterval callback: the timer stays armed for the next period.
IntervalFire(i) ==
    /\ intervals[i] = 0
    /\ intervals' = [intervals EXCEPT ![i] = Delay(updateInterval)]
    /\ updateHealthData
    /\ UNCHANGED <<hidden, updateTimer, refetchTimers, connected, alert,
                   disabled, pending, fingerprintDisplay, stopDisplay,
                   sessionMode, chart, arrivals, clock, emergencyMode, tiles,
                   statusText, statusIndicator, scoreText, scoreBar, limits,
                   last, lastUpdate, historyContent, historyPending, tornDown,
                   recommendationsList, appliedLate>>

RefetchFireRetraining(i) ==
    /\ refetchTimers[i] = 0
    /\ refetchTimers' = RemoveAt(refetchTimers, i)
    /\ updateHealthData
    /\ pending' = [pending EXCEPT !["retrain"] = @ + 1]
    /\ UNCHANGED <<hidden, intervals, updateTimer, connected, alert, disabled,
                   fingerprintDisplay, stopDisplay, sessionMode, chart,
                   arrivals, clock, emergencyMode, tiles, statusText,
                   statusIndicator, scoreText, scoreBar, limits, last,
                   lastUpdate, historyContent, historyPending, tornDown,
                   recommendationsList, appliedLate>>

\* The setTimeout callback a successful retrain, scan or stop leaves behind.
RefetchFire(i) ==
    /\ refetchTimers[i] = 0
    /\ refetchTimers' = RemoveAt(refetchTimers, i)
    /\ updateHealthData
    /\ UNCHANGED <<hidden, intervals, updateTimer, connected, alert, disabled,
                   pending, fingerprintDisplay, stopDisplay, sessionMode,
                   chart, arrivals, clock, emergencyMode, tiles, statusText,
                   statusIndicator, scoreText, scoreBar, limits, last,
                   lastUpdate, historyContent, historyPending, tornDown,
                   recommendationsList, appliedLate>>

\* The setTimeout callback of showAlert: alertSection.style.display = 'none'.
\* All hide timers run for the same time, so they fire in creation order.
AlertTimerFire ==
    /\ alert.timers # <<>>
    /\ alert.timers[1] = 0
    /\ alert' = [alert EXCEPT !.timers = Tail(@), !.display = "none"]
    /\ UNCHANGED <<hidden, intervals, updateTimer, refetchTimers, isUpdating,
                   fetching, inFlight, loading, connected, disabled, pending,
                   fingerprintDisplay, stopDisplay, sessionMode, chart,
                   arrivals, clock, emergencyMode, tiles, statusText,
                   statusIndicator, scoreText, scoreBar, limits, last,
                   lastUpdate, historyContent, historyPending, tornDown,
                   recommendationsList, appliedLate>>

NextDue ==
    SeqMin(intervals, SeqMin(refetchTimers, SeqMin(alert.timers, Step)))

\* Time passes, up to the next due timer; a due timer fires before time
\* moves on.
Advance ==
    /\ limits.timed
    /\ NextDue > 0
    /\ intervals' = Elapse(intervals, NextDue)
    /\ refetchTimers' = Elapse(refetchTimers, NextDue)
    /\ alert' = [alert EXCEPT !.timers = Elapse(@, NextDue),
                              !.age = Min(AlertDuration, @ + NextDue)]
    /\ UNCHANGED <<hidden, updateTimer, isUpdating, fetching, inFlight,
                   loading, connected, disabled, pending, fingerprintDisplay,
                   stopDisplay, sessionMode, chart, arrivals, clock,
                   emergencyMode, tiles, statusText, statusIndicator,
                   scoreText, scoreBar, limits, last, lastUpdate,
                   historyContent, historyPending, tornDown,
                   recommendationsList, appliedLate>>

----------------------------------------------------------------------------
(* The visibilitychange handler and the alert's close button *)

PageHidden ==
    /\ ~hidden
    /\ hidden' = TRUE
    /\ stopDataUpdates
    /\ UNCHANGED <<refetchTimers, isUpdating, fetching, inFlight, loading,
                   alert, disabled, pending, fingerprintDisplay, stopDisplay,
                   sessionMode, chart, arrivals, clock, emergencyMode, tiles,
                   statusText, statusIndicator, scoreText, scoreBar, limits,
                   last, lastUpdate, historyContent, historyPending, tornDown,
                   recommendationsList, appliedLate>>

PageVisible ==
    /\ hidden
    /\ hidden' = FALSE
    /\ startDataUpdates
    /\ UNCHANGED <<refetchTimers, isUpdating, fetching, inFlight, loading,
                   alert, disabled, pending, fingerprintDisplay, stopDisplay,
                   sessionMode, chart, arrivals, clock, emergencyMode, tiles,
                   statusText, statusIndicator, scoreText, scoreBar, limits,
                   last, lastUpdate, historyContent, historyPending, tornDown,
                   recommendationsList, appliedLate>>

\* The handler run for a visibilitychange event that finds document.hidden
\* equal to h, whatever it was when the handler ran last: events queued by
\* quick changes are each handled with the value current at that time.
visibilitychange(h) ==
    /\ hidden' = h
    /\ IF h THEN stopDataUpdates ELSE startDataUpdates
    /\ last' = <<"visibilitychange",
                 IF h = hidden THEN "repeated" ELSE "changed">>
    /\ UNCHANGED <<refetchTimers, isUpdating, fetching, inFlight, loading,
                   alert, disabled, pending, fingerprintDisplay, stopDisplay,
                   sessionMode, chart, arrivals, clock, emergencyMode, tiles,
                   statusText, statusIndicator, scoreText, scoreBar, limits,
                   lastUpdate, historyContent, historyPending, tornDown,
                   recommendationsList, appliedLate>>

\* The close button carries data-bs-dismiss="alert": Bootstrap's Alert.close
\* removes #healthAlert, and #alertMessage inside it, from the document.
DismissAlert ==
    /\ ~hidden
    /\ AlertVisible
    /\ alert' = [alert EXCEPT !.present = FALSE]
    /\ UNCHANGED <<hidden, intervals, updateTimer, refetchTimers, isUpdating,
                   fetching, inFlight, loading, connected, disabled, pending,
                   fingerprintDisplay, stopDisplay, sessionMode, chart,
                   arrivals, clock, emergencyMode, tiles, statusText,
                   statusIndicator, scoreText, scoreBar, limits, last,
                   lastUpdate, historyContent, historyPending, tornDown,
                   recommendationsList, appliedLate>>

----------------------------------------------------------------------------
(* The four controls.  A click runs the handler up to its awaited fetch;   *)
(* the ...Settled action is the rest of it: the success branch or the      *)
(* catch, then the finally.                                                *)
(* A disabled button dispatches no click, and neither does a button that   *)
(* is not displayed or a page that is not visible.                         *)

InFlight ==
    pending["retrain"] + pending["normalScan"] + pending["emergencyScan"]
        + pending["stop"]

Clickable(c) ==
    /\ ~hidden
    /\ ~disabled[c]
    /\ c \in {"normalScan", "emergencyScan"} => fingerprintDisplay # "none"
    /\ c = "stop" => stopDisplay # "none"
    /\ InFlight < limits.pending

RequestLeavingEnabled(c) ==
    /\ Clickable(c)
    /\ pending' = [pending EXCEPT ![c] = @ + 1]
    /\ UNCHANGED <<hidden, intervals, updateTimer, refetchTimers, isUpdating,
                   fetching, inFlight, loading, connected, alert, disabled,
                   fingerprintDisplay, stopDisplay, sessionMode, chart,
                   arrivals, clock, emergencyMode, tiles, statusText,
                   statusIndicator, scoreText, scoreBar, limits, last,
                   lastUpdate, historyContent, historyPending, tornDown,
                   recommendationsList, appliedLate>>

\* button.disabled = true; await fetch(...)
Request(c) ==
    /\ Clickable(c)
    /\ disabled' = [disabled EXCEPT ![c] = TRUE]
    /\ pending' = [pending EXCEPT ![c] = @ + 1]
    /\ UNCHANGED <<hidden, intervals, updateTimer, refetchTimers, isUpdating,
                   fetching, inFlight, loading, connected, alert,
                   fingerprintDisplay, stopDisplay, sessionMode, chart,
                   arrivals, clock, emergencyMode, tiles, statusText,
                   statusIndicator, scoreText, scoreBar, limits, last,
                   lastUpdate, historyContent, historyPending, tornDown,
                   recommendationsList, appliedLate>>

FinallyLeavingDisabled(c) ==
    /\ UNCHANGED disabled
    /\ pending' = [pending EXCEPT ![c] = @ - 1]

\* finally { button.disabled = false; ... }
Finally(c) ==
    /\ disabled' = [disabled EXCEPT ![c] = FALSE]
    /\ pending' = [pending EXCEPT ![c] = @ - 1]

Untouched ==
    UNCHANGED <<hidden, intervals, updateTimer, isUpdating, fetching,
                inFlight, loading, connected, chart, arrivals, clock,
                emergencyMode, tiles, statusText, statusIndicator, scoreText,
                scoreBar, limits, lastUpdate, historyContent, historyPending,
                tornDown, recommendationsList, appliedLate>>

retrainModel == Request("retrain")

retrainModelSettled(ok) ==
    /\ pending["retrain"] > 0
    /\ AlertRoom
    /\ ok => RefetchRoom
    /\ IF ok
       THEN /\ alert' = showAlert(alert, "success", "retrained")
            /\ refetchTimers' = Append(refetchTimers, Delay(RetrainRefetchDelay))
       ELSE /\ alert' = showAlert(alert, "danger", "retrainFailed")
            /\ UNCHANGED refetchTimers
    /\ Finally("retrain")
    /\ last' = <<"retrain", IF ok THEN "ok" ELSE "failed">>
    /\ UNCHANGED <<fingerprintDisplay, stopDisplay, sessionMode>>
    /\ Untouched

triggerNormalScan == Request("normalScan")

normalScanSucceededNoStopButton ==
    /\ alert' = showAlert(alert, "success", "normalScanMessage")
    /\ fingerprintDisplay' = "none"
    /\ UNCHANGED stopDisplay
    /\ sessionMode' = "Normal"
    /\ refetchTimers' = Append(refetchTimers, Delay(ScanRefetchDelay))

normalScanSucceededShowingBoth ==
    /\ alert' = showAlert(alert, "success", "normalScanMessage")
    /\ fingerprintDisplay' = "block"
    /\ stopDisplay' = "block"
    /\ sessionMode' = "Normal"
    /\ refetchTimers' = Append(refetchTimers, Delay(ScanRefetchDelay))

normalScanSucceededWithoutRefetch ==
    /\ alert' = showAlert(alert, "success", "normalScanMessage")
    /\ fingerprintDisplay' = "none"
    /\ stopDisplay' = "block"
    /\ sessionMode' = "Normal"
    /\ UNCHANGED refetchTimers

normalScanSucceeded ==
    /\ alert' = showAlert(alert, "success", "normalScanMessage")
    /\ fingerprintDisplay' = "none"
    /\ stopDisplay' = "block"
    /\ sessionMode' = "Normal"
    /\ refetchTimers' = Append(refetchTimers, Delay(ScanRefetchDelay))

normalScanFailedHidingControls ==
    /\ alert' = showAlert(alert, "danger", "normalScanFailed")
    /\ fingerprintDisplay' = "none"
    /\ UNCHANGED <<stopDisplay, sessionMode, refetchTimers>>

normalScanFailed ==
    /\ alert' = showAlert(alert, "danger", "normalScanFailed")
    /\ UNCHANGED <<fingerprintDisplay, stopDisplay, sessionMode,
                   refetchTimers>>

triggerNormalScanSettled(ok) ==
    /\ pending["normalScan"] > 0
    /\ AlertRoom
    /\ ok => RefetchRoom
    /\ IF ok THEN normalScanSucceeded ELSE normalScanFailed
    /\ Finally("normalScan")
    /\ last' = <<"normalScan", IF ok THEN "ok" ELSE "failed">>
    /\ Untouched

triggerEmergencyScan == Request("emergencyScan")

triggerEmergencyScanSettled(ok) ==
    /\ pending["emergencyScan"] > 0
    /\ AlertRoom
    /\ ok => RefetchRoom
    /\ IF ok
       THEN /\ alert' = showAlert(alert, "danger", "emergencyScanMessage")
            /\ fingerprintDisplay' = "none"
            /\ stopDisplay' = "block"
            /\ sessionMode' = "Emergency"
            /\ refetchTimers' = Append(refetchTimers, Delay(ScanRefetchDelay))
       ELSE /\ alert' = showAlert(alert, "danger", "emergencyScanFailed")
            /\ UNCHANGED <<fingerprintDisplay, stopDisplay, sessionMode,
                           refetchTimers>>
    /\ Finally("emergencyScan")
    /\ last' = <<"emergencyScan", IF ok THEN "ok" ELSE "failed">>
    /\ Untouched

stopMonitoring == Request("stop")

stopMonitoringSettled(ok) ==
    /\ pending["stop"] > 0
    /\ AlertRoom
    /\ ok => RefetchRoom
    /\ IF ok
       THEN /\ alert' = showAlert(alert, "info", "stopMessage")
            /\ fingerprintDisplay' = "block"
            /\ stopDisplay' = "none"
            /\ sessionMode' = "Idle"
            /\ refetchTimers' = Append(refetchTimers, Delay(ScanRefetchDelay))
       ELSE /\ alert' = showAlert(alert, "danger", "stopFailed")
            /\ UNCHANGED <<fingerprintDisplay, stopDisplay, sessionMode,
                           refetchTimers>>
    /\ Finally("stop")
    /\ last' = <<"stop", IF ok THEN "ok" ELSE "failed">>
    /\ Untouched

----------------------------------------------------------------------------
(* The history views.  Both write into the one modal; neither disables its *)
(* button, touches the alert or schedules a refetch.                       *)

HistoryFrameResettingLayout ==
    /\ fingerprintDisplay' = "block"
    /\ stopDisplay' = "none"
    /\ sessionMode' = "Idle"
    /\ UNCHANGED <<hidden, intervals, updateTimer, refetchTimers, isUpdating,
                   fetching, inFlight, loading, connected, alert, disabled,
                   pending, chart, arrivals, clock, emergencyMode, tiles,
                   statusText, statusIndicator, scoreText, scoreBar, limits,
                   last, lastUpdate, tornDown, recommendationsList,
                   appliedLate>>

HistoryFrame ==
    UNCHANGED <<hidden, intervals, updateTimer, refetchTimers, isUpdating,
                fetching, inFlight, loading, connected, alert, disabled,
                pending, fingerprintDisplay, stopDisplay, sessionMode, chart,
                arrivals, clock, emergencyMode, tiles, statusText,
                statusIndicator, scoreText, scoreBar, limits, last,
                lastUpdate, tornDown, recommendationsList, appliedLate>>

\* The spinner is written, the modal shown, and the request issued.
HistoryRequest(v) ==
    /\ ~hidden
    /\ historyPending["health"] + historyPending["scans"] < MaxHistory
    /\ historyContent' = "loading"
    /\ historyPending' = [historyPending EXCEPT ![v] = @ + 1]
    /\ HistoryFrame

\* The table on success; on a rejected request or a response that is not
\* ok, the error text.
HistorySettledRenderingAnyway(v, ok) ==
    /\ historyPending[v] > 0
    /\ historyContent' = v \o "Table"
    /\ historyPending' = [historyPending EXCEPT ![v] = @ - 1]
    /\ HistoryFrame

HistorySettled(v, ok) ==
    /\ historyPending[v] > 0
    /\ historyContent' = IF ok THEN v \o "Table" ELSE v \o "Error"
    /\ historyPending' = [historyPending EXCEPT ![v] = @ - 1]
    /\ HistoryFrame

viewHealthHistory == HistoryRequest("health")

viewHealthHistorySettled(ok) == HistorySettled("health", ok)

viewScanHistory == HistoryRequest("scans")

viewScanHistorySettled(ok) == HistorySettled("scans", ok)

----------------------------------------------------------------------------
(* The beforeunload handler.  The page lives on until the navigation       *)
(* commits, or for good if the navigation is cancelled; the listener runs  *)
(* on every beforeunload event.                                            *)

beforeunload ==
    /\ tornDown' = TRUE
    /\ stopDataUpdates
    /\ UNCHANGED <<hidden, refetchTimers, isUpdating, fetching, inFlight,
                   loading, alert, disabled, pending, fingerprintDisplay,
                   stopDisplay, sessionMode, chart, arrivals, clock,
                   emergencyMode, tiles, statusText, statusIndicator,
                   scoreText, scoreBar, limits, last, lastUpdate,
                   historyContent, historyPending, recommendationsList,
                   appliedLate>>

----------------------------------------------------------------------------
(* The state once the constructor has returned: init() has built the       *)
(* chart, armed the interval and issued the initial load.  The constructor *)
(* never reads document.hidden: a page loaded in a background tab starts   *)
(* hidden with the interval armed and the load in flight.                  *)

Limits(timed, p, rt, at, sm, ap, kinds, verdicts, scores) ==
    [timed |-> timed, pending |-> p, refetchTimers |-> rt, alertTimers |-> at,
     samples |-> sm, appends |-> ap, kinds |-> kinds, verdicts |-> verdicts,
     scores |-> scores, recommendations |-> {NoRecommendations}]

ConstructedWithoutLoad ==
    /\ hidden \in BOOLEAN
    /\ intervals = <<Delay(updateInterval)>>
    /\ updateTimer = 1
    /\ refetchTimers = <<>>
    /\ isUpdating = FALSE
    /\ fetching = 0
    /\ inFlight = <<>>
    /\ loading = FALSE
    /\ connected = TRUE
    /\ alert = [present |-> TRUE, display |-> "none", kind |-> "",
                message |-> "", timers |-> <<>>, age |-> AlertDuration,
                raised |-> <<"", "">>]
    /\ disabled = [c \in Controls |-> FALSE]
    /\ pending = [c \in Controls |-> 0]
    /\ fingerprintDisplay = ""
    /\ stopDisplay = "none"
    /\ sessionMode = "Idle"
    /\ chart = <<>>
    /\ arrivals = <<>>
    /\ clock = 0
    /\ emergencyMode = FALSE
    /\ tiles = 0
    /\ statusText = "Normal"
    /\ statusIndicator = "text-success"
    /\ scoreText = -1
    /\ scoreBar = ""
    /\ last = <<"init", "init">>
    /\ lastUpdate = 0
    /\ historyContent = "loading"
    /\ historyPending = [v \in Views |-> 0]
    /\ tornDown = FALSE
    /\ recommendationsList = <<Paragraph("Loading recommendations...")>>
    /\ appliedLate = FALSE

Constructed ==
    /\ hidden \in BOOLEAN
    /\ intervals = <<Delay(updateInterval)>>
    /\ updateTimer = 1
    /\ refetchTimers = <<>>
    /\ isUpdating = TRUE
    /\ fetching = 1
    /\ inFlight = <<FALSE>>
    /\ loading = TRUE
    /\ connected = TRUE
    /\ alert = [present |-> TRUE, display |-> "none", kind |-> "",
                message |-> "", timers |-> <<>>, age |-> AlertDuration,
                raised |-> <<"", "">>]
    /\ disabled = [c \in Controls |-> FALSE]
    /\ pending = [c \in Controls |-> 0]
    /\ fingerprintDisplay = ""
    /\ stopDisplay = "none"
    /\ sessionMode = "Idle"
    /\ chart = <<>>
    /\ arrivals = <<>>
    /\ clock = 0
    /\ emergencyMode = FALSE
    /\ tiles = 0
    /\ statusText = "Normal"
    /\ statusIndicator = "text-success"
    /\ scoreText = -1
    /\ scoreBar = ""
    /\ last = <<"init", "init">>
    /\ lastUpdate = 0
    /\ historyContent = "loading"
    /\ historyPending = [v \in Views |-> 0]
    /\ tornDown = FALSE
    /\ recommendationsList = <<Paragraph("Loading recommendations...")>>
    /\ appliedLate = FALSE

\* The controller under every event, time left open.  The backend answers
\* with a failure, the waiting sentinel or a normal reading.
Init ==
    /\ limits = Limits(FALSE, MaxPending, MaxRefetchTimers, MaxAlertTimers,
                       MaxSamples, MaxAppends, {"fail", "sentinel", "data"},
                       {"none"}, {80})
    /\ Constructed

Polling ==
    \/ \E i \in 1..Len(intervals) : IntervalFire(i)
    \/ AlertTimerFire
    \/ \E r \in Responses : FetchComplete(r)

Next ==
    \/ Polling
    \/ \E i \in 1..Len(refetchTimers) : RefetchFire(i)
    \/ PageHidden
    \/ PageVisible
    \/ DismissAlert
    \/ retrainModel
    \/ \E ok \in BOOLEAN : retrainModelSettled(ok)
    \/ triggerNormalScan
    \/ \E ok \in BOOLEAN : triggerNormalScanSettled(ok)
    \/ triggerEmergencyScan
    \/ \E ok \in BOOLEAN : triggerEmergencyScanSettled(ok)
    \/ stopMonitoring
    \/ \E ok \in BOOLEAN : stopMonitoringSettled(ok)

Spec == Init /\ [][Next]_vars

\* The polling loop alone, long enough to fill the chart and roll it over.
InitChart ==
    /\ limits = Limits(FALSE, 0, 0, MaxAlertTimers, ChartSamples, ChartAppends,
                       {"fail", "sentinel", "data"}, {"none"}, {80})
    /\ Constructed

SpecChart == InitChart /\ [][Polling]_vars

\* The alert surface with the timers' real delays: the polling loop raises
\* alerts, the close button dismisses them, and time passes.  The event loop
\* lets time pass and runs the callback of every due timer.
InitTimed ==
    /\ limits = Limits(TRUE, 0, 0, TimedAlertTimers, MaxSamples, MaxAppends,
                       {"fail", "data"}, {"none", "High"}, {80})
    /\ Constructed

NextTimed ==
    \/ Advance
    \/ Polling
    \/ DismissAlert

Fairness ==
    /\ WF_vars(Advance)
    /\ WF_vars(AlertTimerFire)
    /\ WF_vars(\E i \in 1..Len(intervals) : IntervalFire(i))

SpecTimed == InitTimed /\ [][NextTimed]_vars /\ Fairness

\* The polling loop rendering every verdict the backend can return, two
\* scores in different bands, the waiting sentinel and failures.
InitStatus ==
    /\ limits = Limits(FALSE, 0, 0, MaxAlertTimers, MaxSamples, StatusAppends,
                       {"fail", "sentinel", "data"},
                       {"none", "Low", "Medium", "High"}, {60, 80})
    /\ Constructed

SpecStatus == InitStatus /\ [][Polling]_vars

\* The polling loop rendering readings of every health score.
InitBand ==
    /\ limits = Limits(FALSE, 0, 0, MaxAlertTimers, MaxSamples, BandAppends,
                       {"fail", "data"}, {"none"}, 0..MaxScore)
    /\ Constructed

SpecBand == InitBand /\ [][Polling]_vars

\* The polling loop against a backend that also returns bodies with fields
\* missing.
InitResponses ==
    /\ limits = Limits(FALSE, 0, 0, MaxAlertTimers, MaxSamples, StatusAppends,
                       {"fail", "sentinel", "data", "malformed"},
                       {"none", "High"}, {60})
    /\ Constructed

SpecResponses == InitResponses /\ [][Polling]_vars

\* The controls and the polling loop with the timers' real delays, on a page
\* that stays in the foreground.
InitRefetch ==
    /\ limits = Limits(TRUE, MaxPending, MaxRefetchTimers, MaxAlertTimers,
                       MaxSamples, MaxAppends, {"fail", "data"}, {"none"},
                       {80})
    /\ Constructed

Clicks ==
    \/ retrainModel
    \/ triggerNormalScan
    \/ triggerEmergencyScan
    \/ stopMonitoring

Acknowledgments ==
    \/ \E ok \in BOOLEAN : retrainModelSettled(ok)
    \/ \E ok \in BOOLEAN : triggerNormalScanSettled(ok)
    \/ \E ok \in BOOLEAN : triggerEmergencyScanSettled(ok)
    \/ \E ok \in BOOLEAN : stopMonitoringSettled(ok)

NextRefetch ==
    \/ Advance
    \/ Polling
    \/ \E i \in 1..Len(refetchTimers) : RefetchFire(i)
    \/ Clicks
    \/ Acknowledgments

SpecRefetch == InitRefetch /\ [][NextRefetch]_vars

\* Every kind of request answered with a status that is not 2xx: snapshot
\* fetches, the four controls (one request at a time) and the two history
\* views.
InitFailure ==
    /\ limits = Limits(FALSE, 1, MaxRefetchTimers, MaxAlertTimers,
                       MaxSamples, MaxAppends, {"httpError", "data"},
                       {"none"}, {80})
    /\ Constructed

NextFailure ==
    \/ Polling
    \/ \E i \in 1..Len(refetchTimers) : RefetchFire(i)
    \/ Clicks
    \/ Acknowledgments
    \/ viewHealthHistory
    \/ \E ok \in BOOLEAN : viewHealthHistorySettled(ok)
    \/ viewScanHistory
    \/ \E ok \in BOOLEAN : viewScanHistorySettled(ok)

SpecFailure == InitFailure /\ [][NextFailure]_vars

\* The page being left: beforeunload runs at some point, the user clicks
\* nothing afterwards, and the page keeps running its callbacks until it is
\* gone.
NextTeardown ==
    \/ beforeunload
    \/ Polling
    \/ \E i \in 1..Len(refetchTimers) : RefetchFire(i)
    \/ ~tornDown /\ Clicks
    \/ Acknowledgments

SpecTeardown == Init /\ [][NextTeardown]_vars

\* The polling loop under visibility events in any order and the unload
\* handler.
NextVisibility ==
    \/ Polling
    \/ \E h \in BOOLEAN : visibilitychange(h)
    \/ beforeunload

SpecVisibility == Init /\ [][NextVisibility]_vars

\* The polling loop against a backend that answers in every way, with the
\* page hidden and shown again; every fetch is answered in the end and every
\* hide timer fires.
InitGuard ==
    /\ limits = Limits(FALSE, 0, 0, MaxAlertTimers, MaxSamples, StatusAppends,
                       {"fail", "httpError", "sentinel", "data", "malformed"},
                       {"none", "High"}, {80})
    /\ Constructed

NextGuard ==
    \/ Polling
    \/ PageHidden
    \/ PageVisible

FairGuard ==
    /\ WF_vars(\E r \in Responses : FetchComplete(r))
    /\ WF_vars(AlertTimerFire)

SpecGuard == InitGuard /\ [][NextGuard]_vars /\ FairGuard

\* Polling against a backend whose snapshots carry every RecommendationSet
\* of up to MaxRecommendations strings.
InitRecommendations ==
    /\ limits = [Limits(FALSE, 0, 0, MaxAlertTimers, MaxSamples, StatusAppends,
                        {"fail", "sentinel", "data"}, {"none"}, {80})
                   EXCEPT !.recommendations = RecommendationSets]
    /\ Constructed

SpecRecommendations == InitRecommendations /\ [][Polling]_vars

\* The controls on a page that stays in the foreground, when every request
\* is answered: each pending request eventually settles, and the event loop
\* runs the callback of every due timer.  The backend is unreachable for
\* snapshot fetches.
InitControls ==
    /\ limits = Limits(FALSE, MaxPending, MaxRefetchTimers, MaxAlertTimers,
                       0, 0, {"fail"}, {"none"}, {80})
    /\ Constructed

NextControls ==
    \/ AlertTimerFire
    \/ \E r \in Responses : FetchComplete(r)
    \/ \E i \in 1..Len(refetchTimers) : RefetchFire(i)
    \/ retrainModel
    \/ \E ok \in BOOLEAN : retrainModelSettled(ok)
    \/ triggerNormalScan
    \/ \E ok \in BOOLEAN : triggerNormalScanSettled(ok)
    \/ triggerEmergencyScan
    \/ \E ok \in BOOLEAN : triggerEmergencyScanSettled(ok)
    \/ stopMonitoring
    \/ \E ok \in BOOLEAN : stopMonitoringSettled(ok)

FairControls ==
    /\ SF_vars(\E ok \in BOOLEAN : retrainModelSettled(ok))
    /\ SF_vars(\E ok \in BOOLEAN : triggerNormalScanSettled(ok))
    /\ SF_vars(\E ok \in BOOLEAN : triggerEmergencyScanSettled(ok))
    /\ SF_vars(\E ok \in BOOLEAN : stopMonitoringSettled(ok))
    /\ WF_vars(AlertTimerFire)
    /\ WF_vars(\E i \in 1..Len(refetchTimers) : RefetchFire(i))

SpecControls == InitControls /\ [][NextControls]_vars /\ FairControls

----------------------------------------------------------------------------
(* Polling and the chart *)

\* C1: at most one GET /api/health-data is awaiting its response, whichever
\* of the initial load, the interval and the refetch timers issued it.
AtMostOneFetchInFlight == fetching <= 1

\* A fetch is in flight while the interval and a refetch timer are both armed.
FetchContended ==
    /\ fetching = 1
    /\ intervals # <<>>
    /\ refetchTimers # <<>>

\* C2: the chart never holds more than maxPoints points.
ChartWithinCapacity == Len(chart) <= maxPoints

\* More points have arrived than the chart holds.
ChartRolledOver ==
    /\ Len(arrivals) > maxPoints
    /\ Len(chart) = maxPoints

Window(h) == SubSeq(h, Len(h) - Min(Len(h), maxPoints) + 1, Len(h))

\* C3: the chart is the last min(n, maxPoints) of the n points that arrived,
\* in arrival order, repeated points included.
ChartIsRecentWindow == chart = Window(arrivals)

\* The chart has rolled over and holds a repeated point followed by a newer one.
ChartKeepsRepeats ==
    /\ Len(arrivals) > maxPoints
    /\ chart[1] = chart[2]
    /\ chart[1] # chart[maxPoints]

\* C4: when the page becomes visible again with no fetch in flight, the
\* resume issues one fetch in that same step.
ResumeFetchesAtOnce ==
    [][(hidden /\ ~hidden' /\ fetching = 0) => fetching' = 1]_vars

----------------------------------------------------------------------------
(* The alert surface *)

\* C5: a hide timer takes an alert off the screen only once the alert has
\* been up for AlertDuration since it was raised last.
AlertStaysForItsDuration ==
    [][(AlertVisible /\ alert'.present /\ alert'.display = "none")
          => alert.age = AlertDuration]_vars

\* What each settled control request hands to showAlert.
Raised(c, outcome) ==
    CASE c = "retrain" /\ outcome = "ok" -> <<"success", "retrained">>
      [] c = "retrain" /\ outcome = "failed" -> <<"danger", "retrainFailed">>
      [] c = "normalScan" /\ outcome = "ok" -> <<"success", "normalScanMessage">>
      [] c = "normalScan" /\ outcome = "failed" -> <<"danger", "normalScanFailed">>
      [] c = "emergencyScan" /\ outcome = "ok" -> <<"danger", "emergencyScanMessage">>
      [] c = "emergencyScan" /\ outcome = "failed" -> <<"danger", "emergencyScanFailed">>
      [] c = "stop" /\ outcome = "ok" -> <<"info", "stopMessage">>
      [] c = "stop" /\ outcome = "failed" -> <<"danger", "stopFailed">>

Settles(c) == pending'[c] < pending[c]

\* C6: right after a step that raises an alert -- every settled control
\* request does, and so does any step that changes what was raised last --
\* the alert is on screen with exactly the kind and message raised.
RaiseAlwaysShows ==
    [][((\E c \in Controls : Settles(c)) \/ alert'.raised # alert.raised)
          => /\ alert'.present
             /\ alert'.display = "block"
             /\ <<alert'.kind, alert'.message>> = alert'.raised]_vars

\* C7: an alert on screen is eventually off the screen.
AlertEventuallyHidden == AlertVisible ~> ~AlertVisible

\* An alert was raised and a timer has hidden it after its full duration.
AlertTimedOut ==
    /\ alert.present
    /\ alert.kind # ""
    /\ alert.display = "none"
    /\ alert.age = AlertDuration

----------------------------------------------------------------------------
(* The session *)

\* C8: a successful scan leaves the session Normal (Emergency) with the scan
\* controls hidden and the stop control shown; a successful stop leaves it
\* Idle with the scan controls shown and the stop control hidden.
LayoutFollowsMode ==
    /\ sessionMode \in {"Normal", "Emergency"}
          => fingerprintDisplay = "none" /\ stopDisplay = "block"
    /\ sessionMode = "Idle"
          => fingerprintDisplay # "none" /\ stopDisplay = "none"
    /\ last = <<"normalScan", "ok">> => sessionMode = "Normal"
    /\ last = <<"emergencyScan", "ok">> => sessionMode = "Emergency"
    /\ last = <<"stop", "ok">>
          => sessionMode = "Idle" /\ fingerprintDisplay = "block"

\* A scan was started and then stopped.
StoppedAfterScan ==
    /\ last = <<"stop", "ok">>
    /\ sessionMode = "Idle"
    /\ fingerprintDisplay = "block"

Transitions == {"normalScan", "emergencyScan", "stop"}

\* C9: a failed scan or stop request changes neither the mode nor the
\* layout, schedules no refetch, and raises that request's danger alert.
FailedTransitionOnlyAlerts ==
    [][\A c \in Transitions :
          (Settles(c) /\ last' = <<c, "failed">>)
             => /\ UNCHANGED <<sessionMode, fingerprintDisplay, stopDisplay,
                               refetchTimers>>
                /\ alert'.raised = Raised(c, "failed")
                /\ alert'.raised[1] = "danger"]_vars

\* A normal-scan request has failed after an earlier scan was stopped.
TransitionFailed ==
    /\ last = <<"normalScan", "failed">>
    /\ sessionMode = "Idle"
    /\ fingerprintDisplay = "block"
    /\ stopDisplay = "none"
    /\ alert.raised = <<"danger", "normalScanFailed">>

\* C10: the mode changes only Idle -> Normal, Idle -> Emergency,
\* Normal -> Idle and Emergency -> Idle, and a scan acknowledgment is applied
\* only in Idle.
ModeFollowsListedTransitions ==
    [][/\ sessionMode' # sessionMode
            => <<sessionMode, sessionMode'>> \in
                  {<<"Idle", "Normal">>, <<"Idle", "Emergency">>,
                   <<"Normal", "Idle">>, <<"Emergency", "Idle">>}
       /\ \A c \in {"normalScan", "emergencyScan"} :
             (Settles(c) /\ last' = <<c, "ok">>) => sessionMode = "Idle"]_vars

----------------------------------------------------------------------------
(* The controls *)

\* C11: each control has at most one request in flight, and it is disabled
\* exactly while that request is pending, so that activating it then issues
\* nothing.
OneRequestPerControl ==
    \A c \in Controls :
        /\ pending[c] <= 1
        /\ disabled[c] <=> pending[c] = 1

\* Both scans are pending and disabled while retrain can still be clicked.
TwoControlsPending ==
    /\ pending["normalScan"] = 1
    /\ pending["emergencyScan"] = 1
    /\ disabled["normalScan"]
    /\ disabled["emergencyScan"]
    /\ ~disabled["retrain"]

\* C12: a settling request re-enables its control whether it succeeded or
\* failed, and when every request settles a disabled control is enabled
\* again.
ControlsReenabled ==
    /\ [][\A c \in Controls : Settles(c) => ~disabled'[c]]_vars
    /\ \A c \in Controls : disabled[c] ~> ~disabled[c]

\* A retrain request has failed and the retrain button is enabled again.
ReenabledAfterFailure ==
    /\ last = <<"retrain", "failed">>
    /\ pending["retrain"] = 0
    /\ ~disabled["retrain"]

----------------------------------------------------------------------------
(* Polling under failure and in the background *)

\* C13: a failed snapshot fetch raises the fetch-failure alert with its hide
\* timer, leaves the interval timer armed as it was and releases the
\* in-flight guard; the tick that follows issues a fetch.
FetchFailureKeepsCadence ==
    [][/\ \A r \in Responses :
             (r.kind = "fail" /\ FetchComplete(r))
                => /\ alert'.raised = <<"error", "fetchFailed">>
                   /\ alert.present
                         => /\ alert'.display = "block"
                            /\ Len(alert'.timers) = Len(alert.timers) + 1
                   /\ intervals' = intervals
                   /\ updateTimer' = updateTimer
                   /\ ~isUpdating'
       /\ \A i \in 1..Len(intervals) :
             (last = <<"fetch", "fail">> /\ ~isUpdating /\ IntervalFire(i))
                => fetching' = 1 /\ isUpdating']_vars

\* A fetch is in flight again after the last one failed.
FetchedAfterFailure ==
    /\ last = <<"fetch", "fail">>
    /\ alert.raised = <<"error", "fetchFailed">>
    /\ intervals # <<>>
    /\ refetchTimers = <<>>
    /\ fetching = 1

\* C14: while the page is hidden no interval timer is armed, and no step
\* taken in the background is a tick of the polling loop.
PausedWhileHidden ==
    /\ [](hidden => intervals = <<>> /\ updateTimer = 0)
    /\ [][hidden => ~(\E i \in 1..Len(intervals) : IntervalFire(i))]_vars

----------------------------------------------------------------------------
(* Rendering a snapshot *)

\* C15: processing a response without a HealthSnapshot writes the placeholder
\* into the metric tiles, makes the status indicator secondary with the
\* waiting text, and adds no point to the chart.
SentinelRendersPlaceholders ==
    [][\A r \in Responses :
          (r.kind = "sentinel" /\ FetchComplete(r))
             => /\ tiles' = 0
                /\ statusText' = "Waiting for scan..."
                /\ statusIndicator' = "text-secondary"
                /\ chart' = chart
                /\ arrivals' = arrivals]_vars

\* A sentinel was processed after a reading had been charted.
SentinelAfterReading ==
    /\ last = <<"fetch", "sentinel">>
    /\ Len(chart) = 1
    /\ tiles = 0
    /\ statusIndicator = "text-secondary"

\* C16: once a sentinel has been processed, the tiles, the score text and
\* the score bar all show their placeholders.
NoStaleValuesAfterSentinel ==
    last = <<"fetch", "sentinel">>
        => /\ tiles = 0
           /\ scoreText = -1
           /\ scoreBar = ""

\* C18: a reading judged anomalous raises the danger alert at High risk and
\* the warning alert at Medium risk, each with its hide timer; at Low risk,
\* and for a reading that is not anomalous, the alert surface is left as it
\* was.
AnomalyAlertsMatchRisk ==
    [][\A r \in Responses :
          (r.kind = "data" /\ FetchComplete(r))
             => CASE r.anomaly = "High" ->
                       /\ alert'.raised = <<"danger", "anomalyHigh">>
                       /\ alert'.kind = "danger"
                       /\ alert'.display = "block"
                       /\ Len(alert'.timers) = Len(alert.timers) + 1
                  [] r.anomaly = "Medium" ->
                       /\ alert'.raised = <<"warning", "anomalyMedium">>
                       /\ alert'.kind = "warning"
                       /\ alert'.display = "block"
                       /\ Len(alert'.timers) = Len(alert.timers) + 1
                  [] OTHER -> alert' = alert]_vars

\* A Medium-risk anomaly is on display with its warning alert.
MediumAnomalyWarned ==
    /\ last = <<"fetch", "data">>
    /\ statusText = "Anomaly Detected (Medium Risk)"
    /\ AlertVisible
    /\ alert.kind = "warning"

\* C19: after a reading is processed the emergency flag is true exactly when
\* the reading was judged anomalous, at any risk level; a sentinel leaves
\* the flag as it was.
EmergencyFlagFollowsAnomaly ==
    [][\A r \in Responses :
          FetchComplete(r)
             => /\ r.kind = "data" => emergencyMode' = (r.anomaly # "none")
                /\ r.kind = "sentinel" => emergencyMode' = emergencyMode]_vars

\* A Low-risk anomaly set the flag and a sentinel processed later kept it.
FlagKeptThroughSentinel ==
    /\ last = <<"fetch", "sentinel">>
    /\ emergencyMode
    /\ arrivals # <<>>

\* C17: the connection indicator changes only when a snapshot fetch
\* completes, and then shows Connected for a reading and Disconnected for a
\* failure.
ConnectionFollowsFetchOutcome ==
    [][/\ connected' # connected => \E r \in Responses : FetchComplete(r)
       /\ \A r \in Responses :
             FetchComplete(r)
                => /\ r.kind = "data" => connected'
                   /\ r.kind = "fail" => ~connected']_vars

\* C20: the colour of the score bar is fixed by the score on display alone:
\* success from 80 to 100, warning from 60 to 79, danger from 0 to 59, and
\* no colour while no score is shown.
BandMatchesScore ==
    /\ scoreText \in 80..100 => scoreBar = "bg-success"
    /\ scoreText \in 60..79 => scoreBar = "bg-warning"
    /\ scoreText \in 0..59 => scoreBar = "bg-danger"
    /\ scoreText = -1 => scoreBar = ""

\* A second reading, scored 79, is on display in the warning band.
SecondScoreBanded ==
    /\ Len(arrivals) = 2
    /\ scoreText = 79
    /\ scoreBar = "bg-warning"

----------------------------------------------------------------------------
(* Who issues what *)

\* C21: a retrain, scan or stop request is issued only by a click on its
\* own enabled control on a visible page, in a step that issues no snapshot
\* fetch; a tick, a refetch timer, a resume and a fetch completion issue no
\* such request.
WritesOnlyOnClick ==
    [][/\ \A c \in Controls :
             pending'[c] > pending[c]
                => /\ ~hidden
                   /\ ~disabled[c]
                   /\ disabled'[c]
                   /\ fetching' = fetching
                   /\ \A d \in Controls \ {c} : pending'[d] = pending[d]
       /\ (\/ \E i \in 1..Len(intervals) : IntervalFire(i)
           \/ \E i \in 1..Len(refetchTimers) : RefetchFire(i)
           \/ PageVisible
           \/ \E r \in Responses : FetchComplete(r))
             => pending' = pending]_vars

\* The refetch left by a retrain has fired and no request of a control is
\* pending.
RefetchedWithoutWrites ==
    /\ last = <<"retrain", "ok">>
    /\ refetchTimers = <<>>
    /\ fetching = 1
    /\ InFlight = 0

----------------------------------------------------------------------------
(* One response, one rendering *)

\* C22: a fetch completion either leaves the tiles, the status, the score,
\* the chart and the last-update time all as they were, or renders all of
\* them from its response: the reading's values for a reading, the
\* placeholders and the waiting status for a sentinel.
SnapshotAppliedWhole ==
    [][\A r \in Responses :
          FetchComplete(r)
             => \/ UNCHANGED <<tiles, statusText, statusIndicator, scoreText,
                               scoreBar, chart, lastUpdate>>
                \/ /\ r.kind = "data"
                   /\ tiles' = r.ts
                   /\ statusText' # "Waiting for scan..."
                   /\ scoreText' = r.score
                   /\ scoreBar' = Band(r.score)
                   /\ chart' = updateChart(chart, r.ts)
                   /\ lastUpdate' = r.ts
                \/ /\ r.kind = "sentinel"
                   /\ tiles' = 0
                   /\ statusText' = "Waiting for scan..."
                   /\ scoreText' = -1
                   /\ scoreBar' = ""
                   /\ chart' = chart]_vars

----------------------------------------------------------------------------
(* Refetches *)

\* C23: a tick or a refetch timer that fires while a snapshot fetch is
\* pending issues nothing; the completion of the pending fetch issues
\* nothing either and releases the guard; a fetch is issued only by a tick
\* or refetch timer that finds the guard released.
DroppedNotQueued ==
    [][/\ (/\ isUpdating
           /\ \/ \E i \in 1..Len(intervals) : IntervalFire(i)
              \/ \E i \in 1..Len(refetchTimers) : RefetchFire(i))
             => fetching' = fetching /\ isUpdating'
       /\ \A r \in Responses :
             FetchComplete(r) => fetching' = 0 /\ ~isUpdating'
       /\ fetching' > fetching
             => /\ ~isUpdating
                /\ \/ \E i \in 1..Len(intervals) : IntervalFire(i)
                   \/ \E i \in 1..Len(refetchTimers) : RefetchFire(i)]_vars

\* The refetch left by a retrain fired while the initial load was still
\* pending: no fetch has completed, and only that one is in flight.
RefetchDropped ==
    /\ last = <<"retrain", "ok">>
    /\ refetchTimers = <<>>
    /\ connected
    /\ arrivals = <<>>
    /\ fetching = 1

\* C24: a fetch completion raises the fetch-failure alert exactly when the
\* request failed or the body lacked an expected field; a sentinel and a
\* reading raise none, and a reading records its last-update time.
FailureAlertIffFailed ==
    [][\A r \in Responses :
          FetchComplete(r)
             => /\ (alert' # alert /\ alert'.raised = <<"error", "fetchFailed">>)
                      <=> r.kind \in {"fail", "malformed"}
                /\ r.kind = "data" => lastUpdate' = r.ts]_vars

----------------------------------------------------------------------------
(* Transitions and alerts, again *)

\* C25: the mode and the layout change only in the step that processes a
\* successful acknowledgment of a scan or stop request, and while a scan or
\* stop request stays pending they do not change at all.
NoSpeculation ==
    [][/\ ~UNCHANGED <<sessionMode, fingerprintDisplay, stopDisplay>>
             => \E c \in Transitions : Settles(c) /\ last' = <<c, "ok">>
       /\ \A c \in Transitions :
             (pending[c] > 0 /\ ~Settles(c))
                => UNCHANGED <<sessionMode, fingerprintDisplay, stopDisplay>>]_vars

\* C26: the kind handed to showAlert is always one of info, success, warning
\* and danger, and every hide timer is started with the same delay.
AlertKindsValid ==
    /\ alert.raised[1] \in {"", "info", "success", "warning", "danger"}
    /\ \A i \in 1..Len(alert.timers) : alert.timers[i] <= Delay(AlertDuration)

\* C27: a request that settles successfully adds exactly one refetch timer,
\* 1000 ms out for retrain and 500 ms out for a scan or stop, and a failed
\* one adds none; nothing else adds one.  A refetch timer fires once, when
\* due -- for retrain 1000 ms after the acknowledgment raised its alert --
\* and issues a fetch only when none is in flight.
OneRefetchPerSuccess ==
    [][/\ \A c \in Controls :
             Settles(c)
                => refetchTimers' =
                      IF last' = <<c, "ok">>
                      THEN Append(refetchTimers,
                                  IF c = "retrain" THEN RetrainRefetchDelay
                                                   ELSE ScanRefetchDelay)
                      ELSE refetchTimers
       /\ Len(refetchTimers') > Len(refetchTimers)
             => \E c \in Controls : Settles(c)
       /\ \A i \in 1..Len(refetchTimers) :
             RefetchFire(i)
                => /\ Len(refetchTimers') = Len(refetchTimers) - 1
                   /\ fetching' = IF isUpdating THEN fetching ELSE fetching + 1
                   /\ alert.age <= RetrainRefetchDelay
                   /\ (/\ last = <<"retrain", "ok">>
                       /\ Len(refetchTimers) = 1)
                         => alert.age = RetrainRefetchDelay]_vars

\* The refetch of a successful retrain is due, 1000 ms after the
\* acknowledgment.
RetrainRefetchDue ==
    /\ last = <<"retrain", "ok">>
    /\ alert.raised = <<"success", "retrained">>
    /\ alert.age = RetrainRefetchDelay
    /\ refetchTimers = <<0>>

----------------------------------------------------------------------------
(* Responses that are not ok *)

\* C28: a response whose status is not 2xx takes the failure path whatever
\* its body holds.  For a snapshot fetch nothing is rendered, the failure
\* alert is raised and the indicator shows Disconnected; for a control the
\* mode, the layout and the refetch timers stay as they were and the
\* control's failure alert is raised; a history view shows its error text.
NonSuccessTakesFailurePath ==
    [][/\ \A r \in Responses :
             (r.kind = "httpError" /\ FetchComplete(r))
                => /\ UNCHANGED <<tiles, statusText, statusIndicator,
                                  emergencyMode, scoreText, scoreBar, chart,
                                  arrivals, lastUpdate>>
                   /\ alert'.raised = <<"error", "fetchFailed">>
                   /\ ~connected'
       /\ \A c \in Controls :
             (Settles(c) /\ last' = <<c, "failed">>)
                => /\ UNCHANGED <<sessionMode, fingerprintDisplay,
                                  stopDisplay, refetchTimers>>
                   /\ alert'.raised = Raised(c, "failed")
       /\ \A v \in Views :
             HistorySettled(v, FALSE)
                => /\ historyContent' = v \o "Error"
                   /\ UNCHANGED <<alert, refetchTimers, sessionMode>>]_vars

\* A reading is on display and a later response with an error status and a
\* full body has been turned away.
ErrorStatusTurnedAway ==
    /\ last = <<"fetch", "httpError">>
    /\ tiles = 1
    /\ lastUpdate = 1
    /\ ~connected

----------------------------------------------------------------------------
(* Startup and teardown *)

\* C29: the constructor leaves the session Idle with the scan controls
\* shown and the stop control hidden, the interval armed with a whole period
\* to run, and one snapshot fetch already in flight; that fetch and that
\* layout stay until the first request or fetch settles.
StartsIdleAndFetching ==
    /\ sessionMode = "Idle"
    /\ fingerprintDisplay # "none"
    /\ stopDisplay = "none"
    /\ intervals = <<updateInterval>>
    /\ updateTimer = 1
    /\ fetching = 1
    /\ isUpdating = TRUE
    /\ [](last = <<"init", "init">>
            => /\ sessionMode = "Idle"
               /\ fingerprintDisplay # "none"
               /\ stopDisplay = "none"
               /\ updateTimer = 1
               /\ fetching = 1)

\* Nothing has settled yet: the initial load is in flight, the first tick a
\* whole period away.
JustConstructed ==
    /\ last = <<"init", "init">>
    /\ InFlight = 0
    /\ sessionMode = "Idle"
    /\ intervals = <<updateInterval>>
    /\ fetching = 1

\* C30: once the beforeunload handler has run, no snapshot fetch is issued.
NoFetchAfterTeardown ==
    [][tornDown => fetching' <= fetching]_vars

\* C31: a snapshot that carries a recommendations array leaves the list with
\* exactly one item per string, in the order received, whatever it held
\* before; an empty array leaves exactly the default message and no item.
RecommendationsRendered ==
    [][\A r \in Responses :
         (FetchComplete(r) /\ r.kind \in {"data", "sentinel"}
            /\ r.recommendations.listed)
         => LET recs == r.recommendations.recommendations
            IN  IF recs = <<>>
                THEN recommendationsList' = <<Paragraph(DefaultMessage)>>
                ELSE /\ Len(recommendationsList') = Len(recs)
                     /\ \A i \in 1..Len(recs) :
                          /\ recommendationsList'[i].text = recs[i]
                          /\ recommendationsList'[i].class
                               \in {"recommendation-item priority-high",
                                    "recommendation-item priority-low"}]_vars

\* Two readings have been rendered, the second with two different strings.
RecommendationsReplaced ==
    /\ Len(arrivals) = 2
    /\ Len(recommendationsList) = 2
    /\ recommendationsList[1].text = "hydrate"
    /\ recommendationsList[2].text = "rest"

\* C32: no snapshot response is applied after the response of a fetch that
\* was issued later than its own: responses are applied in issue order.
ResponsesInIssueOrder == appliedLate = FALSE

\* A reading was applied, then the failure of a later fetch, and a third
\* fetch is pending.
ThirdFetchPending ==
    /\ Len(arrivals) = 1
    /\ last = <<"fetch", "fail">>
    /\ inFlight = <<FALSE>>

Shown(display) == display # "none"

\* C33: exactly one of the scan section and the stop button is displayed in
\* every state, and a step that shows or hides one hides or shows the other.
ExactlyOneControlGroupShown ==
    /\ [](Shown(fingerprintDisplay) # Shown(stopDisplay))
    /\ [][(Shown(fingerprintDisplay') # Shown(fingerprintDisplay))
            <=> (Shown(stopDisplay') # Shown(stopDisplay))]_vars

\* The stop has been acknowledged while a scan request is still pending.
StoppedWhileScanPending ==
    /\ last = <<"stop", "ok">>
    /\ pending["normalScan"] > 0
    /\ Shown(fingerprintDisplay)
    /\ ~Shown(stopDisplay)

\* C34: at most one polling interval timer is armed, whatever the order of
\* the start and stop calls made by the constructor, the visibility events
\* and the unload handler.
AtMostOneIntervalArmed == Len(intervals) <= 1

\* A visible event handled while the page was already visible.
StartedTwiceInARow ==
    /\ last = <<"visibilitychange", "repeated">>
    /\ ~hidden
    /\ Len(intervals) = 1
    /\ updateTimer = 1

\* C35: the guard is set exactly while a snapshot fetch is pending and the
\* overlay is shown exactly while the guard is set; every way a fetch
\* completes clears the guard; a set guard is eventually cleared.
GuardFollowsFetch ==
    /\ [](isUpdating <=> fetching > 0)
    /\ [](loading <=> isUpdating)
    /\ [][\A r \in Responses : FetchComplete(r) => isUpdating' = FALSE]_vars
    /\ ((isUpdating = TRUE) ~> (isUpdating = FALSE))

\* The guard and the overlay are off after a response that threw while it
\* was being applied, and the next tick has not come yet.
ReleasedAfterException ==
    /\ last = <<"fetch", "malformed">>
    /\ isUpdating = FALSE
    /\ loading = FALSE
    /\ fetching = 0

\* A step of the polling loop, of a retraining or of a history view.
Observes ==
    \/ \E i \in 1..Len(intervals) : IntervalFire(i)
    \/ \E i \in 1..Len(refetchTimers) : RefetchFire(i)
    \/ \E r \in Responses : FetchComplete(r)
    \/ retrainModel
    \/ \E ok \in BOOLEAN : retrainModelSettled(ok)
    \/ \E v \in Views : HistoryRequest(v)
    \/ \E v \in Views, ok \in BOOLEAN : HistorySettled(v, ok)

\* A step of a scan or stop request: the click or the acknowledgment.
Transits ==
    \/ triggerNormalScan
    \/ triggerEmergencyScan
    \/ stopMonitoring
    \/ \E ok \in BOOLEAN : triggerNormalScanSettled(ok)
    \/ \E ok \in BOOLEAN : triggerEmergencyScanSettled(ok)
    \/ \E ok \in BOOLEAN : stopMonitoringSettled(ok)

\* C36: polling, retraining and the history views leave the session mode
\* and the scan/stop layout as they were, and scan and stop requests leave
\* the chart as it was.
ModeAndChartFramed ==
    [][/\ Observes
          => UNCHANGED <<sessionMode, fingerprintDisplay, stopDisplay>>
       /\ Transits => UNCHANGED <<chart, arrivals>>]_vars

\* A reading has been charted while the session is in Emergency mode.
ChartedInEmergency ==
    /\ sessionMode = "Emergency"
    /\ last = <<"fetch", "data">>
    /\ Len(chart) = 1
    /\ Shown(stopDisplay)

====
